---------------------------- MODULE Spec2Model ----------------------------
(***************************************************************************)
(* State-machine model of src/my_it_store/app.py: a Flask application      *)
(* over three SQLAlchemy tables (Employee, Product, Sale) with a cookie     *)
(* session.  One action per (route, method); add_sale's POST is split at    *)
(* its only database write (db.session.commit) so that requests served by   *)
(* different threads can interleave between the SELECT and the commit.      *)
(*                                                                         *)
(* Abstractions: timestamps are ticks of a logical clock `now`; prices are  *)
(* integers; the free-text columns that no branch reads (fullname,          *)
(* position, phone, name, description, category) are left out, as are       *)
(* created_at, updated_at and sale_date.  A session is the value of its     *)
(* "username" key; its 24-hour lifetime and the queue of flashed messages   *)
(* are not modelled: a response carries the message its request flashed.    *)
(* A form always carries every field, with numbers where numbers are        *)
(* parsed.                                                                  *)
(***************************************************************************)
EXTENDS Integers, Sequences, FiniteSets

(***************************************************************************)
(* Bounds of the model.                                                     *)
(***************************************************************************)
MaxProductId == 2                  \* product ids in use
MaxSales     == 2                  \* rows of the Sale table
MaxClock     == 2                  \* instants of the clock

\* len(password) < 8                                          (app.py:58)
MinPasswordLen == 8

Clients   == {"c1"}                \* browsers, each with its own cookie
Threads   == {"t1", "t2"}          \* server threads handling POST /sale/add
Usernames == {"alice", "bob"}
Emails    == {"a@store", "b@store"}
Salts     == {3, 7}                \* salts generate_password_hash may draw
Prices    == {2, 5}
Stocks    == {-1, 2}               \* int(request.form["stock"]), unchecked
Quantities == {-1, 0, 1, 2}        \* int(request.form["quantity"]), unchecked
ProductIds == 1 .. MaxProductId

NoUser == "<no username>"          \* "username" not in session
None   == [none |-> TRUE]          \* Python None / .first() without a row

(***************************************************************************)
(* Passwords are sequences of characters.                                   *)
(***************************************************************************)
Lower == {"a", "b", "c", "d", "e", "f", "g", "h", "x", "y", "z"}
Upper == {"A", "B", "C", "D", "X", "Y", "Z"}
Digit == {"0", "1", "2", "3", "4", "5", "6", "7", "8", "9"}
Alphabet == <<"a", "b", "c", "d", "e", "f", "g", "h", "x", "y", "z",
              "A", "B", "C", "D", "X", "Y", "Z",
              "0", "1", "2", "3", "4", "5", "6", "7", "8", "9", "#", "!">>

PwGood1     == <<"A", "b", "c", "d", "e", "f", "1", "2">>
PwGood2     == <<"x", "Y", "z", "#", "9", "8", "7", "6", "!">>
PwShortNoLo == <<"A", "B", "C", "D", "#", "!", "#">>
PwNoLower   == <<"A", "B", "C", "D", "1", "2", "3", "4">>
PwDigits    == <<"1", "2", "3", "4", "5", "6", "7", "8">>
PwNoUpper   == <<"a", "b", "c", "d", "1", "2", "3", "4">>
PwLowers    == <<"a", "b", "c", "d", "e", "f", "g", "h">>
PwNoDigit   == <<"A", "b", "c", "d", "e", "f", "g", "h", "#">>
Passwords == {PwGood1, PwGood2, PwShortNoLo, PwNoLower, PwDigits,
              PwNoUpper, PwLowers, PwNoDigit}

\* re.search("[a-z]", password) and the like
Search(class, password) == \E i \in 1 .. Len(password) : password[i] \in class

\* as validate_password, with the uppercase test ahead of the lowercase test
validate_password_swapped(password) ==
    IF Len(password) < MinPasswordLen
    THEN [ok |-> FALSE, msg |-> "password_too_short"]
    ELSE IF ~Search(Upper, password)
    THEN [ok |-> FALSE, msg |-> "password_needs_uppercase"]
    ELSE IF ~Search(Lower, password)
    THEN [ok |-> FALSE, msg |-> "password_needs_lowercase"]
    ELSE IF ~Search(Digit, password)
    THEN [ok |-> FALSE, msg |-> "password_needs_digit"]
    ELSE [ok |-> TRUE, msg |-> "password_ok"]

validate_password(password) ==
    IF Len(password) < MinPasswordLen
    THEN [ok |-> FALSE, msg |-> "password_too_short"]
    ELSE IF ~Search(Lower, password)
    THEN [ok |-> FALSE, msg |-> "password_needs_lowercase"]
    ELSE IF ~Search(Upper, password)
    THEN [ok |-> FALSE, msg |-> "password_needs_uppercase"]
    ELSE IF ~Search(Digit, password)
    THEN [ok |-> FALSE, msg |-> "password_needs_digit"]
    ELSE [ok |-> TRUE, msg |-> "password_ok"]

(***************************************************************************)
(* werkzeug's salted hash: a digest of salt and password, kept with the     *)
(* salt; verification recomputes the digest under the stored salt.          *)
(***************************************************************************)
Code(ch) == CHOOSE i \in 1 .. Len(Alphabet) : Alphabet[i] = ch

RECURSIVE Digest(_, _)
Digest(h, s) ==
    IF s = <<>> THEN h
    ELSE Digest((h * 31 + Code(Head(s))) % 1000003, Tail(s))

\* the digests of the passwords of the model under its salts, computed once
DigestOf == [salt \in Salts |-> [password \in Passwords |-> Digest(salt, password)]]

generate_password_hash(salt, password) ==
    [salt |-> salt, digest |-> DigestOf[salt][password]]

check_password_hash(pwhash, password) ==
    DigestOf[pwhash.salt][password] = pwhash.digest

VARIABLES
    employees,   \* Employee table: row id = index
    products,    \* Product table: id -> row
    sales,       \* Sale table: row id = index
    session,     \* per client: session["username"], or NoUser
    txn,         \* per thread: the add_sale POST between its SELECTs and commit
    now,         \* logical clock read by datetime.utcnow()
    resp         \* the response to the last finished request

vars == <<employees, products, sales, session, txn, now, resp>>

(***************************************************************************)
(* Responses.                                                               *)
(***************************************************************************)
Render(template) == [status |-> "render", to |-> template, flash |-> "none"]
RenderFlash(template, msg) == [status |-> "render", to |-> template, flash |-> msg]
Redirect(endpoint, msg) == [status |-> "redirect", to |-> endpoint, flash |-> msg]
NotFound == [status |-> "404", to |-> "none", flash |-> "none"]
ServerError == [status |-> "500", to |-> "none", flash |-> "none"]

(***************************************************************************)
(* Queries.                                                                 *)
(***************************************************************************)
\* Employee.query.filter_by(username=username).first(): row id or 0
EmployeeByUsername(username) ==
    IF \E i \in 1 .. Len(employees) : employees[i].username = username
    THEN CHOOSE i \in 1 .. Len(employees) :
            /\ employees[i].username = username
            /\ \A j \in 1 .. i - 1 : employees[j].username # username
    ELSE 0

EmployeeByEmail(email) ==
    IF \E i \in 1 .. Len(employees) : employees[i].email = email
    THEN CHOOSE i \in 1 .. Len(employees) :
            /\ employees[i].email = email
            /\ \A j \in 1 .. i - 1 : employees[j].email # email
    ELSE 0

\* Product.query.all(): the catalog listing
ProductQueryAll == DOMAIN products

\* SQLite's INTEGER PRIMARY KEY without AUTOINCREMENT: largest rowid + 1
NextProductId ==
    IF DOMAIN products = {} THEN 1
    ELSE (CHOOSE m \in DOMAIN products : \A k \in DOMAIN products : k <= m) + 1

\* Product.sales, the backref of Sale.product: rows whose product_id is id
SalesOf(id) == {i \in 1 .. Len(sales) : sales[i].product_id = id}

Init ==
    /\ employees = <<>>
    /\ products = [id \in {} |-> None]
    /\ sales = <<>>
    /\ session = [c \in Clients |-> NoUser]
    /\ txn = [t \in Threads |-> None]
    /\ now = 1
    /\ resp = Render("login.html")

\* time passes: datetime.utcnow() returns a later instant from now on
Tick ==
    /\ now < MaxClock
    /\ now' = now + 1
    /\ UNCHANGED <<employees, products, sales, session, txn, resp>>

(***************************************************************************)
(* login_required: without session["username"] the wrapped view is not      *)
(* called; the request is answered with a redirect to login.                *)
(***************************************************************************)
\* as login_required, with the session test left out
login_required_open(c, view) == view

login_required(c, view) ==
    IF session[c] = NoUser
    THEN /\ resp' = Redirect("login", "login_required")
         /\ UNCHANGED <<employees, products, sales, session, txn, now>>
    ELSE view

(***************************************************************************)
(* /login                                                                   *)
(***************************************************************************)
\* Employee.check_password
check_password(employee, password) ==
    check_password_hash(employee.password_hash, password)

\* as Authenticates, with the password left unverified
Authenticates_any_password(e, password) == e # 0

\* the condition of the if at app.py:91, e being the row id .first() found
Authenticates(e, password) ==
    e # 0 /\ check_password(employees[e], password)

LoginGet(c) ==
    /\ resp' = Render("login.html")
    /\ UNCHANGED <<employees, products, sales, session, txn, now>>

LoginPost(c, username, password) ==
    LET e == EmployeeByUsername(username) IN
    IF Authenticates(e, password)
    THEN /\ session' = [session EXCEPT ![c] = username]
         /\ employees' = [employees EXCEPT ![e].last_login = now]
         /\ resp' = Redirect("home", "login_ok")
         /\ UNCHANGED <<products, sales, txn, now>>
    ELSE /\ resp' = RenderFlash("login.html", "invalid_credentials")
         /\ UNCHANGED <<employees, products, sales, session, txn, now>>

(***************************************************************************)
(* /logout                                                                  *)
(***************************************************************************)
Logout(c) ==
    /\ session' = [session EXCEPT ![c] = NoUser]
    /\ resp' = Redirect("login", "logout_ok")
    /\ UNCHANGED <<employees, products, sales, txn, now>>

(***************************************************************************)
(* /register                                                                *)
(***************************************************************************)
RegisterGet(c) ==
    /\ resp' = Render("register.html")
    /\ UNCHANGED <<employees, products, sales, session, txn, now>>

\* the two lookups that guard the insert (app.py:122 and app.py:126)
UsernameTaken(username) == EmployeeByUsername(username) # 0

\* as EmailTaken, with the lookup by email left out
EmailTaken_never(email) == FALSE

EmailTaken(email) == EmployeeByEmail(email) # 0

\* the flash message of the first check of register that fails, or "none"
RegisterRejection(username, password, confirm_password, email) ==
    IF ~validate_password(password).ok THEN validate_password(password).msg
    ELSE IF password # confirm_password THEN "password_mismatch"
    ELSE IF UsernameTaken(username) THEN "username_taken"
    ELSE IF EmailTaken(email) THEN "email_taken"
    ELSE "none"

RegisterPost(c, username, password, confirm_password, email) ==
    LET msg == RegisterRejection(username, password, confirm_password, email) IN
    IF msg # "none"
    THEN /\ resp' = Redirect("register", msg)
         /\ UNCHANGED <<employees, products, sales, session, txn, now>>
    ELSE /\ \E salt \in Salts :
              employees' = Append(employees,
                  [username |-> username,
                   email |-> email,
                   password_hash |-> generate_password_hash(salt, password),
                   last_login |-> 0])   \* NULL
         /\ resp' = Redirect("login", "register_ok")
         /\ UNCHANGED <<products, sales, session, txn, now>>

(***************************************************************************)
(* Read-only pages: /, /products, /sales                                    *)
(***************************************************************************)
Home(c) ==
    login_required(c,
        /\ resp' = Render("dashboard.html")
        /\ UNCHANGED <<employees, products, sales, session, txn, now>>)

Products(c) ==
    login_required(c,
        /\ resp' = Render("products.html")
        /\ UNCHANGED <<employees, products, sales, session, txn, now>>)

Sales(c) ==
    login_required(c,
        /\ resp' = Render("sales.html")
        /\ UNCHANGED <<employees, products, sales, session, txn, now>>)

(***************************************************************************)
(* /product/add, /product/edit/<id>, /product/delete/<id>                   *)
(***************************************************************************)
AddProductGet(c) ==
    login_required(c,
        /\ resp' = Render("add_product.html")
        /\ UNCHANGED <<employees, products, sales, session, txn, now>>)

AddProductPost(c, price, stock) ==
    login_required(c,
        /\ NextProductId <= MaxProductId
        /\ products' = [id \in DOMAIN products \cup {NextProductId} |->
                          IF id = NextProductId
                          THEN [price |-> price, stock |-> stock]
                          ELSE products[id]]
        /\ resp' = Redirect("products", "product_added")
        /\ UNCHANGED <<employees, sales, session, txn, now>>)

EditProductGet(c, id) ==
    login_required(c,
        /\ resp' = IF id \in DOMAIN products
                   THEN Render("edit_product.html") ELSE NotFound
        /\ UNCHANGED <<employees, products, sales, session, txn, now>>)

EditProductPost(c, id, price, stock) ==
    login_required(c,
        IF id \notin DOMAIN products
        THEN /\ resp' = NotFound
             /\ UNCHANGED <<employees, products, sales, session, txn, now>>
        ELSE /\ products' = [products EXCEPT
                                ![id] = [price |-> price, stock |-> stock]]
             /\ resp' = Redirect("products", "product_updated")
             /\ UNCHANGED <<employees, sales, session, txn, now>>)

\* db.session.delete(product) first empties Product.sales, the backref of
\* Sale.product that has no delete cascade, by setting product_id of each
\* referring Sale to NULL; the column is nullable=False, so with a referring
\* Sale the commit raises IntegrityError and is rolled back.
DeleteBlocked(id) == SalesOf(id) # {}

\* as DeleteProduct, had the relationship been given cascade="all, delete":
\* the Sales of the product are deleted with it
DeleteProduct_cascade(c, id) ==
    login_required(c,
        IF id \notin DOMAIN products
        THEN /\ resp' = NotFound
             /\ UNCHANGED <<employees, products, sales, session, txn, now>>
        ELSE /\ products' = [k \in DOMAIN products \ {id} |-> products[k]]
             /\ sales' = SelectSeq(sales, LAMBDA s : s.product_id # id)
             /\ resp' = Redirect("products", "product_deleted")
             /\ UNCHANGED <<employees, session, txn, now>>)

DeleteProduct(c, id) ==
    login_required(c,
        IF id \notin DOMAIN products
        THEN /\ resp' = NotFound
             /\ UNCHANGED <<employees, products, sales, session, txn, now>>
        ELSE IF DeleteBlocked(id)
        THEN /\ resp' = ServerError
             /\ UNCHANGED <<employees, products, sales, session, txn, now>>
        ELSE /\ products' = [k \in DOMAIN products \ {id} |-> products[k]]
             /\ resp' = Redirect("products", "product_deleted")
             /\ UNCHANGED <<employees, sales, session, txn, now>>)

(***************************************************************************)
(* /sale/add                                                                *)
(***************************************************************************)
AddSaleGet(c) ==
    login_required(c,
        /\ resp' = Render("add_sale.html")
        /\ UNCHANGED <<employees, products, sales, session, txn, now>>)

\* as InsufficientStock, off by one
InsufficientStock_off_by_one(product, quantity) == product.stock < quantity - 1

\* the condition of the if at app.py:207
InsufficientStock(product, quantity) == product.stock < quantity

\* as NewSale, with the unit price as total_price
NewSale_unit_price(product_id, product, employee_id, quantity) ==
    [product_id |-> product_id,
     employee_id |-> employee_id,
     quantity |-> quantity,
     total_price |-> product.price]

\* the Sale built at app.py:211-217
NewSale(product_id, product, employee_id, quantity) ==
    [product_id |-> product_id,
     employee_id |-> employee_id,
     quantity |-> quantity,
     total_price |-> product.price * quantity]

\* how POST /sale/add ends before it writes anything, or None (app.py:204-214;
\* employee.id of a username without a row raises AttributeError)
AddSaleRejection(c, product_id, quantity) ==
    IF product_id \notin DOMAIN products THEN NotFound
    ELSE IF InsufficientStock(products[product_id], quantity)
    THEN Redirect("add_sale", "insufficient_stock")
    ELSE IF EmployeeByUsername(session[c]) = 0 THEN ServerError
    ELSE None

\* what the request holds in memory when it reaches db.session.commit():
\* the new Sale and the decremented stock of the Product it loaded
Pending(c, product_id, quantity) ==
    [sale |-> NewSale(product_id, products[product_id],
                      EmployeeByUsername(session[c]), quantity),
     stock |-> products[product_id].stock - quantity]

\* as CommitSale, had the decrement been done in SQL on the stored row:
\* UPDATE product SET stock = stock - quantity
CommitSale_relative(pending) ==
    LET id == pending.sale.product_id
        dirty == pending.sale.quantity # 0
    IN  IF dirty /\ id \notin DOMAIN products
        THEN /\ resp' = ServerError
             /\ UNCHANGED <<products, sales>>
        ELSE /\ products' = IF dirty
                            THEN [products EXCEPT
                                    ![id].stock = @ - pending.sale.quantity]
                            ELSE products
             /\ sales' = Append(sales, pending.sale)
             /\ resp' = Redirect("sales", "sale_ok")

\* db.session.commit() (app.py:221-223): UPDATE product SET stock = <the
\* value held in memory> WHERE id = product_id, emitted only when that value
\* differs from the one loaded, then INSERT INTO sale.  An UPDATE that
\* matches no row raises StaleDataError and nothing is written.
CommitSale(pending) ==
    LET id == pending.sale.product_id
        dirty == pending.sale.quantity # 0
    IN  IF dirty /\ id \notin DOMAIN products
        THEN /\ resp' = ServerError
             /\ UNCHANGED <<products, sales>>
        ELSE /\ products' = IF dirty
                            THEN [products EXCEPT ![id].stock = pending.stock]
                            ELSE products
             /\ sales' = Append(sales, pending.sale)
             /\ resp' = Redirect("sales", "sale_ok")

\* POST /sale/add served without another request in between
AddSalePost(c, product_id, quantity) ==
    login_required(c,
        IF AddSaleRejection(c, product_id, quantity) # None
        THEN /\ resp' = AddSaleRejection(c, product_id, quantity)
             /\ UNCHANGED <<employees, products, sales, session, txn, now>>
        ELSE /\ Len(sales) < MaxSales
             /\ CommitSale(Pending(c, product_id, quantity))
             /\ UNCHANGED <<employees, session, txn, now>>)

\* requests between their stock check and their commit
InFlight == {t \in Threads : txn[t] # None}

\* POST /sale/add on thread t, up to db.session.add(new_sale) (app.py:202-220)
AddSaleBegin(t, c, product_id, quantity) ==
    /\ txn[t] = None
    /\ login_required(c,
        IF AddSaleRejection(c, product_id, quantity) # None
        THEN /\ resp' = AddSaleRejection(c, product_id, quantity)
             /\ UNCHANGED <<employees, products, sales, session, txn, now>>
        ELSE /\ Len(sales) + Cardinality(InFlight) < MaxSales
             /\ txn' = [txn EXCEPT ![t] = Pending(c, product_id, quantity)]
             /\ UNCHANGED <<employees, products, sales, session, now, resp>>)

\* ... and its db.session.commit() (app.py:221-223)
AddSaleCommit(t) ==
    /\ txn[t] # None
    /\ CommitSale(txn[t])
    /\ txn' = [txn EXCEPT ![t] = None]
    /\ UNCHANGED <<employees, session, now>>

(***************************************************************************)
(* Specifications.                                                          *)
(***************************************************************************)
\* what a form may carry as confirm_password beside the password itself
Confirmations(password) == {password, PwGood1}

AuthRequest(c) ==
    \/ LoginGet(c)
    \/ \E u \in Usernames, p \in Passwords : LoginPost(c, u, p)
    \/ Logout(c)
    \/ RegisterGet(c)
    \/ \E u \in Usernames, p \in Passwords, e \in Emails :
          \E p2 \in Confirmations(p) : RegisterPost(c, u, p, p2, e)

PageRequest(c) ==
    \/ Home(c)
    \/ Products(c)
    \/ Sales(c)

CatalogRequest(c) ==
    \/ AddProductGet(c)
    \/ \E price \in Prices, stock \in Stocks : AddProductPost(c, price, stock)
    \/ \E id \in ProductIds : EditProductGet(c, id)
    \/ \E id \in ProductIds, price \in Prices, stock \in Stocks :
          EditProductPost(c, id, price, stock)
    \/ \E id \in ProductIds : DeleteProduct(c, id)

SaleRequest(c) ==
    \/ AddSaleGet(c)
    \/ \E id \in ProductIds, q \in Quantities : AddSalePost(c, id, q)

\* The whole application, requests served one at a time.
Next ==
    \/ \E c \in Clients :
          AuthRequest(c) \/ PageRequest(c) \/ CatalogRequest(c) \/ SaleRequest(c)
    \/ Tick

Spec == Init /\ [][Next]_vars

\* Authentication: registration, login and logout from the empty database,
\* with the dashboard as the page behind the gate.
NextAuth ==
    \/ \E c \in Clients : AuthRequest(c) \/ Home(c)
    \/ Tick

SpecAuth == Init /\ [][NextAuth]_vars

\* Registration alone, from the empty database.
NextRegister ==
    \E c \in Clients :
        \/ RegisterGet(c)
        \/ \E u \in Usernames, p \in Passwords, e \in Emails :
              \E p2 \in Confirmations(p) : RegisterPost(c, u, p, p2, e)

SpecRegister == Init /\ [][NextRegister]_vars

\* Catalog and sales, requests served one at a time, from the database that
\* two registrations, each followed by a login and a logout at instant 1,
\* leave.
Registered ==
    <<[username |-> "alice", email |-> "a@store",
       password_hash |-> generate_password_hash(3, PwGood1), last_login |-> 1],
      [username |-> "bob", email |-> "b@store",
       password_hash |-> generate_password_hash(7, PwGood2), last_login |-> 1]>>

InitStore ==
    /\ employees = Registered
    /\ products = [id \in {} |-> None]
    /\ sales = <<>>
    /\ session = [c \in Clients |-> NoUser]
    /\ txn = [t \in Threads |-> None]
    /\ now = 1
    /\ resp = Render("login.html")

NextStore ==
    \E c \in Clients :
        \/ \E u \in Usernames, p \in {PwGood1, PwGood2} : LoginPost(c, u, p)
        \/ Logout(c)
        \/ PageRequest(c)
        \/ CatalogRequest(c)
        \/ SaleRequest(c)

SpecStore == InitStore /\ [][NextStore]_vars

\* Concurrent sales: POST /sale/add requests of a logged-in employee served
\* by two threads, each free to run between the other's stock check and commit,
\* over a catalog that was filled with products of stock 0 or more.
StartStocks == {0, 1, 2}

InitSales ==
    /\ employees = Registered
    /\ products \in [ProductIds -> [price : {2}, stock : StartStocks]]
    /\ sales = <<>>
    /\ session = [c \in Clients |-> "alice"]
    /\ txn = [t \in Threads |-> None]
    /\ now = 1
    /\ resp = Redirect("home", "login_ok")

NextSales ==
    \/ \E t \in Threads, c \in Clients, id \in ProductIds, q \in Quantities :
          AddSaleBegin(t, c, id, q)
    \/ \E t \in Threads : AddSaleCommit(t)

SpecSales == InitSales /\ [][NextSales]_vars

(***************************************************************************)
(* Properties.                                                              *)
(***************************************************************************)
Authenticated(c) == session[c] # NoUser

\* C1: a POST /sale/add for an existing product with quantity > stock
\* inserts no Sale and changes no Product; when the request comes with a
\* session it ends in the insufficient-stock redirect.
C1_InsufficientStockChangesNothing ==
    [][\A c \in Clients, id \in ProductIds, q \in Quantities :
         (/\ id \in DOMAIN products
          /\ q > products[id].stock
          /\ AddSalePost(c, id, q))
         => /\ sales' = sales
            /\ products' = products
            /\ Authenticated(c) =>
                  resp' = Redirect("add_sale", "insufficient_stock")]_vars

\* a sale was refused for lack of stock with another sale already recorded
C1_Witness ==
    /\ resp = Redirect("add_sale", "insufficient_stock")
    /\ sales # <<>>
    /\ \E id \in DOMAIN products : products[id].stock >= 0

\* C2: a POST /sale/add by logged-in employee e for an existing product p
\* with quantity q <= p.stock, served alone, appends exactly one Sale
\* (p, e, q, p.price * q), lowers p.stock by q and changes nothing else of
\* the Product and Sale tables.
C2_ValidSaleRecorded ==
    [][\A c \in Clients, id \in ProductIds, q \in Quantities :
         (/\ Authenticated(c)
          /\ id \in DOMAIN products
          /\ q <= products[id].stock
          /\ AddSalePost(c, id, q))
         => /\ Len(sales') = Len(sales) + 1
            /\ \A i \in 1 .. Len(sales) : sales'[i] = sales[i]
            /\ \E e \in 1 .. Len(employees) :
                  /\ employees[e].username = session[c]
                  /\ sales'[Len(sales')] =
                        [product_id |-> id,
                         employee_id |-> e,
                         quantity |-> q,
                         total_price |-> products[id].price * q]
            /\ DOMAIN products' = DOMAIN products
            /\ products'[id] =
                  [price |-> products[id].price, stock |-> products[id].stock - q]
            /\ \A k \in DOMAIN products \ {id} : products'[k] = products[k]]_vars

\* a second sale was recorded while another product is in the catalog
C2_Witness ==
    /\ resp = Redirect("sales", "sale_ok")
    /\ Len(sales) = 2
    /\ sales[2].quantity = 2
    /\ sales[2].total_price = 10
    /\ Cardinality(DOMAIN products) = 2

\* C3: any request to home, products, add_product, edit_product,
\* delete_product, sales or add_sale from a client whose session holds no
\* username is answered with the redirect to login and leaves the Employee,
\* Product and Sale tables and the session as they were.
C3_GateRedirectsToLogin ==
    [][\A c \in Clients :
         (/\ ~Authenticated(c)
          /\ PageRequest(c) \/ CatalogRequest(c) \/ SaleRequest(c))
         => /\ resp' = Redirect("login", "login_required")
            /\ UNCHANGED <<employees, products, sales, session>>]_vars

\* a request was turned away after a logout, with products and sales stored
C3_Witness ==
    /\ resp = Redirect("login", "login_required")
    /\ \A c \in Clients : ~Authenticated(c)
    /\ DOMAIN products # {}
    /\ sales # <<>>

\* C4: POST /login binds the session to the submitted username and sets that
\* employee's last_login to the current time exactly when an employee with
\* that username exists and the password verifies against its hash;
\* otherwise, whether the username is unknown or the password wrong, the
\* answer is the same invalid-credentials page and neither the session nor
\* any Employee changes.
C4_LoginOutcome ==
    [][\A c \in Clients, u \in Usernames, p \in Passwords :
         LoginPost(c, u, p) =>
            IF \E i \in 1 .. Len(employees) :
                  /\ employees[i].username = u
                  /\ check_password_hash(employees[i].password_hash, p)
            THEN /\ session' = [session EXCEPT ![c] = u]
                 /\ resp' = Redirect("home", "login_ok")
                 /\ Len(employees') = Len(employees)
                 /\ \A i \in 1 .. Len(employees) :
                       employees'[i] =
                          IF employees[i].username = u
                          THEN [employees[i] EXCEPT !.last_login = now]
                          ELSE employees[i]
            ELSE /\ resp' = RenderFlash("login.html", "invalid_credentials")
                 /\ session' = session
                 /\ employees' = employees]_vars

\* a login failed while a session of an earlier, later-timed login stands
C4_Witness ==
    /\ resp = RenderFlash("login.html", "invalid_credentials")
    /\ Len(employees) = 2
    /\ \E c \in Clients :
          /\ Authenticated(c)
          /\ \E i \in 1 .. Len(employees) :
                /\ employees[i].username = session[c]
                /\ employees[i].last_login = 2

\* C5: no two Employee rows share a username or an email, and a POST
\* /register whose username or email is already stored adds no Employee and
\* changes none.
C5_UniqueUsernameAndEmail ==
    /\ [](\A i, j \in 1 .. Len(employees) :
             i # j => /\ employees[i].username # employees[j].username
                      /\ employees[i].email # employees[j].email)
    /\ [][\A c \in Clients, u \in Usernames, p \in Passwords, e \in Emails :
            \A p2 \in Confirmations(p) :
               (/\ RegisterPost(c, u, p, p2, e)
                /\ \E i \in 1 .. Len(employees) :
                      employees[i].username = u \/ employees[i].email = e)
               => employees' = employees]_vars

\* a registration was refused for its email, the username being free
C5_Witness ==
    /\ resp = Redirect("register", "email_taken")
    /\ Len(employees) = 1

\* the password policy of the specification, criterion by criterion
TooShort(password) == Len(password) < 8
LacksLower(password) == \A i \in 1 .. Len(password) : password[i] \notin Lower
LacksUpper(password) == \A i \in 1 .. Len(password) : password[i] \notin Upper
LacksDigit(password) == \A i \in 1 .. Len(password) : password[i] \notin Digit

Weak(password) ==
    TooShort(password) \/ LacksLower(password) \/ LacksUpper(password)
        \/ LacksDigit(password)

FirstCriterionFailed(password) ==
    CASE TooShort(password) -> "password_too_short"
      [] ~TooShort(password) /\ LacksLower(password) -> "password_needs_lowercase"
      [] ~TooShort(password) /\ ~LacksLower(password) /\ LacksUpper(password) ->
            "password_needs_uppercase"
      [] OTHER -> "password_needs_digit"

\* C6: a POST /register with a password that fails the policy adds no
\* Employee and reports the first criterion that fails, in the order length,
\* lowercase, uppercase, digit, whatever the confirmation, username and
\* email are.
C6_WeakPasswordRejected ==
    [][\A c \in Clients, u \in Usernames, p \in Passwords, e \in Emails :
         \A p2 \in Confirmations(p) :
            (RegisterPost(c, u, p, p2, e) /\ Weak(p))
            => /\ employees' = employees
               /\ resp' = Redirect("register", FirstCriterionFailed(p))]_vars

\* a weak password was refused with both usernames and emails taken
C6_Witness ==
    /\ resp = Redirect("register", "password_needs_lowercase")
    /\ Len(employees) = 2

\* C7: a stored Sale stays: no step removes it or changes its product_id,
\* employee_id, quantity or total_price.
C7_SaleImmutable ==
    [][/\ Len(sales') >= Len(sales)
       /\ \A i \in 1 .. Len(sales) : sales'[i] = sales[i]]_vars

\* a Sale whose total_price is no longer the product's price times quantity
\* (the price was edited after the sale), after a refused delete of a product
C7_Witness ==
    /\ resp = ServerError
    /\ \E i \in 1 .. Len(sales) :
          /\ sales[i].product_id \in DOMAIN products
          /\ sales[i].quantity = 2
          /\ sales[i].total_price # products[sales[i].product_id].price * 2

\* C8: an authenticated delete of an existing product, referenced by Sales
\* or not, removes it from the catalog listing and leaves every other
\* Product as it was; of a missing product it answers 404 and changes
\* nothing.
C8_DeleteRemovesProduct ==
    [][\A c \in Clients, id \in ProductIds :
         (Authenticated(c) /\ DeleteProduct(c, id))
         => IF id \in DOMAIN products
            THEN /\ id \notin ProductQueryAll'
                 /\ ProductQueryAll' = ProductQueryAll \ {id}
                 /\ \A k \in ProductQueryAll' : products'[k] = products[k]
            ELSE /\ resp' = NotFound
                 /\ UNCHANGED <<employees, products, sales>>]_vars

\* C9: with stocks that start at 0 or more, no interleaving of the steps of
\* POST /sale/add requests brings a stored stock below 0.
C9_StockNeverNegative ==
    \A id \in DOMAIN products : products[id].stock >= 0

\* a request that passed its stock check is about to commit a quantity
\* greater than what another request's commit has left
C9_Witness ==
    /\ Len(sales) = 1
    /\ \E t \in Threads :
          /\ txn[t] # None
          /\ txn[t].sale.quantity > products[txn[t].sale.product_id].stock

\* C10: a request that passed its stock check commits whatever was committed
\* since: its Sale is inserted and the stock it stores is the one it computed
\* from the value it read.  So when another sale of q1 was committed in
\* between (the stored stock is s - q1, not the s it read), both Sales are
\* stored and the stock left is s - q2, not s - (q1 + q2).
C10_CommitWritesCheckedStock ==
    [][\A t \in Threads :
         (/\ txn[t] # None
          /\ txn[t].sale.quantity # 0
          /\ AddSaleCommit(t))
         => /\ sales' = Append(sales, txn[t].sale)
            /\ products'[txn[t].sale.product_id].stock = txn[t].stock
            /\ products[txn[t].sale.product_id].stock
                  # txn[t].stock + txn[t].sale.quantity
               => products'[txn[t].sale.product_id].stock
                     # products[txn[t].sale.product_id].stock
                          - txn[t].sale.quantity]_vars

\* two Sales of one product are stored whose quantities, each within the
\* starting stock, add up to more than any starting stock s, and the stock
\* left is not s - (q1 + q2)
C10_Witness ==
    /\ Len(sales) = 2
    /\ InFlight = {}
    /\ sales[1].product_id = sales[2].product_id
    /\ sales[1].quantity > 0
    /\ sales[2].quantity > 0
    /\ \A s \in StartStocks :
          /\ sales[1].quantity + sales[2].quantity > s
          /\ products[sales[1].product_id].stock
                # s - (sales[1].quantity + sales[2].quantity)

=============================================================================
